---- MODULE Spec2Model ----
(***************************************************************************)
(* Model of tensorflow/python/platform/default/_gfile.py: the file handle  *)
(* wrapper _GFileBase (GFile with a reentrant lock, FastGFile with a null  *)
(* lock), its error normalisation and its locking discipline.              *)
(*                                                                         *)
(* One handle on one path is used by the threads of Threads.  The          *)
(* underlying file object is the Python 2 file type the module was written *)
(* for (it reads e.message and defines next()): a call on a closed file    *)
(* raises ValueError, a failing OS call raises IOError.  The file content  *)
(* is abstracted to its length; a line is a non-empty run of bytes whose   *)
(* length the model chooses.  A call of the underlying file object is one  *)
(* atomic step (the interpreter lock serialises them).                     *)
(***************************************************************************)
EXTENDS Integers, FiniteSets, Sequences, TLC

\* ---------------------------------------------------------------- bounds
MaxLen == 1                  \* largest file length and offset explored

Threads == {"t1", "t2"}
NoThread == "nobody"
NoCur == -1                  \* Size(): "cur" not assigned yet

Modes == {"r", "w", "a"}
Lockers == {"Python", "Null"}

\* The public operations of a handle, in source order.
PublicSyncOps == {"flush", "closed", "write", "writelines", "tell", "seek",
                  "truncate", "readline", "readlines", "Size", "read", "close"}
\* The methods under _synchronized: those and the finaliser.
SyncOps == PublicSyncOps \cup {"__del__"}
Ops == PublicSyncOps \cup {"next"}

VARIABLES
  dirOk,       \* the parent directory of the path exists and is writable
  fileExists,  \* the path names an existing regular file
  fileLen,     \* its length in bytes
  handle,      \* "none" (not constructed), "bare" (allocated, __init__ did
               \* not run: no attribute at all), "failed" (constructor
               \* raised, no _fp attribute), "open", "closed" (_fp.closed)
  ctorRes,     \* outcome of the constructor
  mode,        \* self._mode
  locker,      \* self._locker: "none" (not attached), "Python", "Null"
  offset,      \* position of the underlying file object
  lockOwner,   \* owner of _Pythonlocker._lock (an RLock)
  lockCount,   \* its recursion level
  pc,          \* per thread: "idle", "lock" (in sync, before lock()),
               \* "body" (inside fn)
  op,          \* per thread: the public operation being executed
  res,         \* per thread: outcome of the last finished public operation
  step,        \* per thread, inside Size(): the statement reached
  inner,       \* per thread, inside Size(): a nested call holds the lock
  cur,         \* per thread, inside Size(): the local "cur"
  pend,        \* per thread, inside Size(): exception raised in the try block
  exc,         \* per thread, inside Size(): exception raised in the finally
  scope,       \* the with-block on the handle: "out", "in", "exitN"/"exitE"
               \* (__exit__ running after a normal/abnormal end of the block),
               \* "leftN"/"leftE" (control has left the block)
  scopeOwner,  \* the thread that entered the with-block
  fin,         \* the last reference to the handle is gone: __del__ was called
  rt,          \* the single-threaded session on a file with content
  pair,        \* the locks of two GFile handles used side by side
  tree,        \* the directory tree the module's file functions work on
  fcall,       \* the last call of a file function
  flagv        \* the flag values and the command line of the flags test

fsVars == <<dirOk, fileExists, fileLen>>
objVars == <<handle, ctorRes, mode, locker>>
lockVars == <<lockOwner, lockCount>>
sizeVars == <<step, inner, cur, pend, exc>>
scopeVars == <<scope, scopeOwner>>
handleVars == <<dirOk, fileExists, fileLen, handle, ctorRes, mode, locker,
                offset, lockOwner, lockCount, pc, op, res, step, inner, cur,
                pend, exc, scope, scopeOwner, fin>>
otherVars == <<rt, pair, tree, fcall, flagv>>
vars == <<handleVars, otherVars>>

Min(a, b) == IF a < b THEN a ELSE b
Max(a, b) == IF a < b THEN b ELSE a

\* ------------------------------------------------------ error normaliser
\* A mutant: the ValueError clause is missing.
error_wrapper_noValueError(raw) ==
  CASE raw = "IOError" -> "FileError"
    [] raw = "FileError" -> "FileError"
    [] raw = "OSError" -> "GOSError"
    [] OTHER -> raw

\* A mutant: every exception, StopIteration included, is turned into FileError.
error_wrapper_catchAll(raw) ==
  IF raw = "ok" THEN "ok" ELSE "FileError"

\* _error_wrapper: ValueError -> FileError(EIO), IOError (and FileError, its
\* subclass) -> FileError, OSError -> GOSError; a return value and every
\* other exception (StopIteration) pass through.
error_wrapper(raw) ==
  CASE raw = "ValueError" -> "FileError"
    [] raw = "IOError" -> "FileError"
    [] raw = "FileError" -> "FileError"
    [] raw = "OSError" -> "GOSError"
    [] OTHER -> raw

\* ------------------------------------------------------ locking strategy
\* A mutant: acquire() never blocks.
CanLock_noblock(t) == TRUE

\* A mutant: a plain, non-reentrant Lock.
CanLock_nonreentrant(t) == locker = "Python" => lockOwner = NoThread

\* lock() returns for thread t: _Nulllocker.lock is a no-op; RLock.acquire
\* blocks while another thread owns the lock.  Without a _locker attribute
\* sync does not lock at all.
CanLock(t) == locker = "Python" => lockOwner \in {NoThread, t}

\* A mutant: the null strategy takes the lock as the reentrant one does.
locker_lock_always(t) ==
  /\ lockOwner' = t
  /\ lockCount' = lockCount + 1

\* A mutant: a lock that does not count its acquisitions.
locker_lock_flat(t) ==
  IF locker = "Python"
  THEN /\ lockOwner' = t
       /\ lockCount' = 1
  ELSE UNCHANGED lockVars

\* _Pythonlocker.lock / _Nulllocker.lock
locker_lock(t) ==
  IF locker = "Python"
  THEN /\ lockOwner' = t
       /\ lockCount' = lockCount + 1
  ELSE UNCHANGED lockVars

\* A mutant: release() gives the lock up whatever its recursion level.
locker_unlock_full(t) ==
  IF locker = "Python"
  THEN /\ lockCount' = 0
       /\ lockOwner' = NoThread
  ELSE UNCHANGED lockVars

\* _Pythonlocker.unlock / _Nulllocker.unlock
locker_unlock(t) ==
  IF locker = "Python"
  THEN /\ lockCount' = lockCount - 1
       /\ lockOwner' = IF lockCount = 1 THEN NoThread ELSE lockOwner
  ELSE UNCHANGED lockVars

\* A mutant: unlock() after the call instead of in a finally clause.
synchronized_exit_nofinally(t, raw) ==
  IF raw = "ok" THEN locker_unlock(t) ELSE UNCHANGED lockVars

\* The finally clause of sync: unlock() whether fn returned or raised.
synchronized_exit(t, raw) == locker_unlock(t)

\* A mutant: next() decorated with _synchronized like the other methods.
IsSynchronized_all(o) == TRUE

\* The methods decorated with _synchronized: all but next().
IsSynchronized(o) == o # "next"

\* -------------------------------------------------- underlying file object
\* A mutant: close() of a closed file raises like the other methods.
fp_close_status_strict(fail) ==
  IF handle = "closed" THEN "ValueError" ELSE IF fail THEN "IOError" ELSE "ok"

\* file.close(): a no-op on a closed file; a failing close raises IOError.
fp_close_status(fail) ==
  IF handle = "closed" THEN "ok" ELSE IF fail THEN "IOError" ELSE "ok"

\* A mutant: a closed file still serves calls.
fp_status_noclosedcheck(kind, fail) ==
  IF kind = "write" /\ mode = "r" THEN "IOError"
  ELSE IF kind = "read" /\ mode # "r" THEN "IOError"
  ELSE IF fail THEN "IOError"
  ELSE "ok"

\* Outcome of a call of the underlying file object other than close(): on a
\* closed file ValueError; a write on a file opened for reading or a read on
\* one opened for writing IOError; an OS failure ("fail") IOError.
fp_status(kind, fail) ==
  IF handle = "closed" THEN "ValueError"
  ELSE IF kind = "write" /\ mode = "r" THEN "IOError"
  ELSE IF kind = "read" /\ mode # "r" THEN "IOError"
  ELSE IF fail THEN "IOError"
  ELSE "ok"

\* A mutant: open() creates a missing file in read mode too.
builtin_open_creates(m) == IF dirOk THEN "ok" ELSE "IOError"

\* open(name, mode): read mode needs the file; write and append modes create
\* it and need its directory.
builtin_open(m) ==
  IF m = "r"
  THEN IF fileExists THEN "ok" ELSE "IOError"
  ELSE IF dirOk THEN "ok" ELSE "IOError"

\* --------------------------------------------------------------- Init
\* The parts of the module the handle is not concerned with stay as they are.
OthersIdle ==
  /\ rt = "none"
  /\ pair = "none"
  /\ tree = "none"
  /\ fcall = "none"
  /\ flagv = "none"

Init ==
  /\ dirOk \in BOOLEAN
  /\ fileExists \in BOOLEAN
  /\ fileExists => dirOk
  /\ fileLen \in 0..MaxLen
  /\ ~fileExists => fileLen = 0
  /\ handle = "none"
  /\ ctorRes = "none"
  /\ mode = "none"
  /\ locker = "none"
  /\ offset = 0
  /\ lockOwner = NoThread
  /\ lockCount = 0
  /\ pc = [t \in Threads |-> "idle"]
  /\ op = [t \in Threads |-> "none"]
  /\ res = [t \in Threads |-> "none"]
  /\ step = [t \in Threads |-> "none"]
  /\ inner = [t \in Threads |-> FALSE]
  /\ cur = [t \in Threads |-> NoCur]
  /\ pend = [t \in Threads |-> "none"]
  /\ exc = [t \in Threads |-> "none"]
  /\ scope = "out"
  /\ scopeOwner = NoThread
  /\ fin = FALSE
  /\ OthersIdle

\* ------------------------------------------------------------ construction
\* GFile(name, mode) / FastGFile(name, mode): _GFileBase.__init__ under
\* _error_wrapper.  _name, _mode and _locker are set before open() is tried.
GFileBase_init(m, lk) ==
  /\ handle = "none"
  /\ mode' = m
  /\ locker' = lk
  /\ LET raw == builtin_open(m) IN
       /\ ctorRes' = error_wrapper(raw)
       /\ IF raw = "ok"
          THEN /\ handle' = "open"
               /\ fileExists' = TRUE
               /\ fileLen' = IF m = "w" THEN 0 ELSE fileLen
          ELSE /\ handle' = "failed"
               /\ UNCHANGED <<fileExists, fileLen>>
  /\ offset' = 0
  /\ UNCHANGED <<dirOk, lockVars, pc, op, res, sizeVars, scopeVars>>
  /\ UNCHANGED <<fin, otherVars>>

\* class GFile: a handle with thread locking, _Pythonlocker()
GFile(m) == GFileBase_init(m, "Python")

\* class FastGFile: a handle without thread locking, _Nulllocker()
FastGFile(m) == GFileBase_init(m, "Null")

\* ------------------------------------------------------- calling a method
InExit(t) == scope \in {"exitN", "exitE"} /\ scopeOwner = t

\* Thread t calls the public operation o of the constructed handle: it enters
\* wrap and, for a synchronized method, sync.
Call(t, o) ==
  /\ handle \in {"open", "closed"}
  /\ ~fin
  /\ pc[t] = "idle"
  /\ ~InExit(t)
  /\ op' = [op EXCEPT ![t] = o]
  /\ pc' = [pc EXCEPT ![t] = IF IsSynchronized(o) THEN "lock" ELSE "body"]
  /\ res' = [res EXCEPT ![t] = "none"]
  /\ UNCHANGED <<fsVars, objVars, offset, lockVars, sizeVars, scopeVars>>
  /\ UNCHANGED <<fin, otherVars>>

\* sync: self._locker.lock(), then fn is entered.
Lock(t) ==
  /\ pc[t] = "lock"
  /\ CanLock(t)
  /\ locker_lock(t)
  /\ pc' = [pc EXCEPT ![t] = "body"]
  /\ step' = [step EXCEPT ![t] = IF op[t] = "Size" THEN "tell1" ELSE "none"]
  /\ UNCHANGED <<fsVars, objVars, offset, op, res, inner, cur, pend, exc,
                 scopeVars>>
  /\ UNCHANGED <<fin, otherVars>>

\* fn has returned or raised "raw": the finally clause of sync unlocks (for a
\* synchronized method), wrap normalises the exception, the caller resumes.
Return(t, raw) ==
  /\ IF IsSynchronized(op[t])
     THEN synchronized_exit(t, raw)
     ELSE UNCHANGED lockVars
  /\ pc' = [pc EXCEPT ![t] = "idle"]
  /\ op' = [op EXCEPT ![t] = "none"]
  /\ res' = [res EXCEPT ![t] = error_wrapper(raw)]

InBody(t, o) == pc[t] = "body" /\ op[t] = o

\* ------------------------------------------------- the plain operations
\* Each action is fn's call of the underlying file object followed by the
\* exit through sync and wrap.

\* flush(): self._fp.flush()
flush(t) ==
  /\ InBody(t, "flush")
  /\ \E fail \in BOOLEAN : Return(t, fp_status("any", fail))
  /\ UNCHANGED <<fsVars, objVars, offset, sizeVars, scopeVars>>
  /\ UNCHANGED <<fin, otherVars>>

\* closed: self._fp.closed, an attribute read that never raises
closed(t) ==
  /\ InBody(t, "closed")
  /\ Return(t, "ok")
  /\ UNCHANGED <<fsVars, objVars, offset, sizeVars, scopeVars>>
  /\ UNCHANGED <<fin, otherVars>>

\* The file object writes n bytes: at the end of the file in append mode, at
\* the current position otherwise.
fp_write(t, n, fail) ==
  LET raw == fp_status("write", fail)
      pos == IF mode = "a" THEN fileLen ELSE offset
  IN /\ raw = "ok" => pos + n <= MaxLen
     /\ IF raw = "ok"
        THEN /\ offset' = pos + n
             /\ fileLen' = Max(fileLen, pos + n)
        ELSE UNCHANGED <<offset, fileLen>>
     /\ Return(t, raw)

\* write(data): self._fp.write(data)
write(t) ==
  /\ InBody(t, "write")
  /\ \E n \in 0..MaxLen, fail \in BOOLEAN : fp_write(t, n, fail)
  /\ UNCHANGED <<dirOk, fileExists, objVars, sizeVars, scopeVars>>
  /\ UNCHANGED <<fin, otherVars>>

\* writelines(seq): self._fp.writelines(seq); n is the total length of seq
writelines(t) ==
  /\ InBody(t, "writelines")
  /\ \E n \in 0..MaxLen, fail \in BOOLEAN : fp_write(t, n, fail)
  /\ UNCHANGED <<dirOk, fileExists, objVars, sizeVars, scopeVars>>
  /\ UNCHANGED <<fin, otherVars>>

\* tell(): self._fp.tell()
tell(t) ==
  /\ InBody(t, "tell")
  /\ \E fail \in BOOLEAN : Return(t, fp_status("any", fail))
  /\ UNCHANGED <<fsVars, objVars, offset, sizeVars, scopeVars>>
  /\ UNCHANGED <<fin, otherVars>>

\* Target of file.seek(off, whence)
SeekTarget(off, whence) ==
  CASE whence = 0 -> off
    [] whence = 1 -> offset + off
    [] whence = 2 -> fileLen + off

\* seek(offset, whence): self._fp.seek(offset, whence); a negative target is
\* refused by the OS (EINVAL)
seek(t) ==
  /\ InBody(t, "seek")
  /\ \E off \in (0 - MaxLen)..MaxLen, whence \in 0..2, fail \in BOOLEAN :
       LET new == SeekTarget(off, whence)
           raw == fp_status("any", fail \/ new < 0)
       IN /\ new <= MaxLen
          /\ offset' = IF raw = "ok" THEN new ELSE offset
          /\ Return(t, raw)
  /\ UNCHANGED <<fsVars, objVars, sizeVars, scopeVars>>
  /\ UNCHANGED <<fin, otherVars>>

\* truncate(new_size): self._fp.truncate(new_size), with an integer size
truncate(t) ==
  /\ InBody(t, "truncate")
  /\ \E new_size \in 0..MaxLen, fail \in BOOLEAN :
       LET raw == fp_status("write", fail)
       IN /\ fileLen' = IF raw = "ok" THEN new_size ELSE fileLen
          /\ Return(t, raw)
  /\ UNCHANGED <<dirOk, fileExists, objVars, offset, sizeVars, scopeVars>>
  /\ UNCHANGED <<fin, otherVars>>

\* Positions a read of at least one and at most "most" bytes can end at; the
\* position stays where it is at or after the end of the file.
ReadEnds(most) ==
  IF offset >= fileLen
  THEN {offset}
  ELSE {p \in (offset + 1)..fileLen : p <= offset + most}

\* readline(max_length): self._fp.readline(max_length); the line ends
\* somewhere before the end of the file
readline(t) ==
  /\ InBody(t, "readline")
  /\ \E fail \in BOOLEAN :
       LET raw == fp_status("read", fail)
       IN /\ \E p \in ReadEnds(MaxLen) :
               offset' = IF raw = "ok" THEN p ELSE offset
          /\ Return(t, raw)
  /\ UNCHANGED <<fsVars, objVars, sizeVars, scopeVars>>
  /\ UNCHANGED <<fin, otherVars>>

\* readlines(sizehint): with a hint the read may stop at an earlier line end,
\* without one it goes to the end of the file
readlines(t) ==
  /\ InBody(t, "readlines")
  /\ \E hint \in BOOLEAN, fail \in BOOLEAN :
       LET raw == fp_status("read", fail)
       IN /\ \E p \in ReadEnds(MaxLen) :
               /\ ~hint => p = Max(offset, fileLen)
               /\ offset' = IF raw = "ok" THEN p ELSE offset
          /\ Return(t, raw)
  /\ UNCHANGED <<fsVars, objVars, sizeVars, scopeVars>>
  /\ UNCHANGED <<fin, otherVars>>

\* read(n): self._fp.read(n); a negative n reads to the end of the file
read(t) ==
  /\ InBody(t, "read")
  /\ \E n \in -1..MaxLen, fail \in BOOLEAN :
       LET raw == fp_status("read", fail)
           new == IF offset >= fileLen THEN offset
                  ELSE IF n < 0 THEN fileLen
                  ELSE Min(offset + n, fileLen)
       IN /\ offset' = IF raw = "ok" THEN new ELSE offset
          /\ Return(t, raw)
  /\ UNCHANGED <<fsVars, objVars, sizeVars, scopeVars>>
  /\ UNCHANGED <<fin, otherVars>>

\* next(): next(self._fp), not synchronized; StopIteration at the end of the
\* file
next(t) ==
  /\ InBody(t, "next")
  /\ \E fail \in BOOLEAN :
       LET st == fp_status("read", fail)
           raw == IF st = "ok" /\ offset >= fileLen THEN "StopIteration" ELSE st
       IN /\ \E p \in ReadEnds(MaxLen) :
               offset' = IF raw = "ok" THEN p ELSE offset
          /\ Return(t, raw)
  /\ UNCHANGED <<fsVars, objVars, sizeVars, scopeVars>>
  /\ UNCHANGED <<fin, otherVars>>

\* close(): self._fp.close().  The file object is closed even when the OS
\* close fails; a closed file has no position any more (offset is parked at
\* 0).  When close() was called by __exit__, control then leaves the
\* with-block.
close(t) ==
  /\ InBody(t, "close")
  /\ \E fail \in BOOLEAN : Return(t, fp_close_status(fail))
  /\ handle' = "closed"
  /\ offset' = IF handle = "closed" THEN offset ELSE 0
  /\ scope' = IF InExit(t)
              THEN (IF scope = "exitN" THEN "leftN" ELSE "leftE")
              ELSE scope
  /\ scopeOwner' = IF InExit(t) THEN NoThread ELSE scopeOwner
  /\ UNCHANGED <<fsVars, ctorRes, mode, locker, sizeVars>>
  /\ UNCHANGED <<fin, otherVars>>

\* ------------------------------------------------------------- Size()
\* Size() runs under sync; its four calls self.tell(), self.seek(0, 2),
\* self.tell(), self.seek(cur) are public methods, so each goes through wrap
\* and sync again: lock(), the file object's call, unlock().

\* A nested call of Size() passes lock().
Size_lock(t) ==
  /\ InBody(t, "Size")
  /\ step[t] \in {"tell1", "seekend", "tell2", "restore"}
  /\ ~inner[t]
  /\ CanLock(t)
  /\ locker_lock(t)
  /\ inner' = [inner EXCEPT ![t] = TRUE]
  /\ UNCHANGED <<fsVars, objVars, offset, pc, op, res, step, cur, pend, exc,
                 scopeVars>>
  /\ UNCHANGED <<fin, otherVars>>

InSize(t, s) == InBody(t, "Size") /\ step[t] = s /\ inner[t]

\* A mutant: the restoring seek after the try block instead of in a finally.
AfterTryFailure_nofinally == "exit"

\* Where Size() continues when self.seek(0, 2) or the second self.tell()
\* raises: the finally clause, self.seek(cur).
AfterTryFailure == "restore"

\* cur = self.tell(); when it raises, Size() raises before the try block
Size_tell1(t) ==
  /\ InSize(t, "tell1")
  /\ \E fail \in BOOLEAN :
       LET raw == fp_status("any", fail)
       IN /\ synchronized_exit(t, raw)
          /\ IF raw = "ok"
             THEN /\ cur' = [cur EXCEPT ![t] = offset]
                  /\ step' = [step EXCEPT ![t] = "seekend"]
                  /\ UNCHANGED exc
             ELSE /\ exc' = [exc EXCEPT ![t] = error_wrapper(raw)]
                  /\ step' = [step EXCEPT ![t] = "exit"]
                  /\ UNCHANGED cur
  /\ inner' = [inner EXCEPT ![t] = FALSE]
  /\ UNCHANGED <<fsVars, objVars, offset, pc, op, res, pend, scopeVars>>
  /\ UNCHANGED <<fin, otherVars>>

\* self.seek(0, 2)
Size_seekend(t) ==
  /\ InSize(t, "seekend")
  /\ \E fail \in BOOLEAN :
       LET raw == fp_status("any", fail)
       IN /\ synchronized_exit(t, raw)
          /\ IF raw = "ok"
             THEN /\ offset' = fileLen
                  /\ step' = [step EXCEPT ![t] = "tell2"]
                  /\ UNCHANGED pend
             ELSE /\ pend' = [pend EXCEPT ![t] = error_wrapper(raw)]
                  /\ step' = [step EXCEPT ![t] = AfterTryFailure]
                  /\ UNCHANGED offset
  /\ inner' = [inner EXCEPT ![t] = FALSE]
  /\ UNCHANGED <<fsVars, objVars, pc, op, res, cur, exc, scopeVars>>
  /\ UNCHANGED <<fin, otherVars>>

\* size = self.tell()
Size_tell2(t) ==
  /\ InSize(t, "tell2")
  /\ \E fail \in BOOLEAN :
       LET raw == fp_status("any", fail)
       IN /\ synchronized_exit(t, raw)
          /\ IF raw = "ok"
             THEN /\ step' = [step EXCEPT ![t] = "restore"]
                  /\ UNCHANGED pend
             ELSE /\ pend' = [pend EXCEPT ![t] = error_wrapper(raw)]
                  /\ step' = [step EXCEPT ![t] = AfterTryFailure]
  /\ inner' = [inner EXCEPT ![t] = FALSE]
  /\ UNCHANGED <<fsVars, objVars, offset, pc, op, res, cur, exc, scopeVars>>
  /\ UNCHANGED <<fin, otherVars>>

\* finally: self.seek(cur); an exception raised here replaces the pending one
Size_restore(t) ==
  /\ InSize(t, "restore")
  /\ \E fail \in BOOLEAN :
       LET raw == fp_status("any", fail)
       IN /\ synchronized_exit(t, raw)
          /\ IF raw = "ok"
             THEN /\ offset' = cur[t]
                  /\ UNCHANGED exc
             ELSE /\ exc' = [exc EXCEPT ![t] = error_wrapper(raw)]
                  /\ UNCHANGED offset
  /\ step' = [step EXCEPT ![t] = "exit"]
  /\ inner' = [inner EXCEPT ![t] = FALSE]
  /\ UNCHANGED <<fsVars, objVars, pc, op, res, cur, pend, scopeVars>>
  /\ UNCHANGED <<fin, otherVars>>

\* What Size() leaves with: the exception of the finally clause, else the
\* pending one of the try block, else the return of size.
SizeOutcome(t) ==
  IF exc[t] # "none" THEN exc[t]
  ELSE IF pend[t] # "none" THEN pend[t]
  ELSE "ok"

\* return size, or the exception propagates: exit through sync and wrap
Size_return(t) ==
  /\ InBody(t, "Size")
  /\ step[t] = "exit"
  /\ Return(t, SizeOutcome(t))
  /\ step' = [step EXCEPT ![t] = "none"]
  /\ cur' = [cur EXCEPT ![t] = NoCur]
  /\ pend' = [pend EXCEPT ![t] = "none"]
  /\ exc' = [exc EXCEPT ![t] = "none"]
  /\ UNCHANGED <<fsVars, objVars, offset, inner, scopeVars>>
  /\ UNCHANGED <<fin, otherVars>>

\* ------------------------------------------------------ scoped acquisition
\* __enter__: returns self; thread t is now inside the with-block.
GFileBase_enter(t) ==
  /\ handle \in {"open", "closed"}
  /\ ~fin
  /\ scope = "out"
  /\ pc[t] = "idle"
  /\ scope' = "in"
  /\ scopeOwner' = t
  /\ UNCHANGED <<fsVars, objVars, offset, lockVars, pc, op, res, sizeVars>>
  /\ UNCHANGED <<fin, otherVars>>

\* A mutant: __exit__ returns without closing.
GFileBase_exit_noclose(t, abnormal) ==
  /\ scope' = IF abnormal THEN "leftE" ELSE "leftN"
  /\ scopeOwner' = NoThread
  /\ UNCHANGED <<pc, op, res>>

\* __exit__(type, value, traceback): self.close(), whatever the arguments
GFileBase_exit(t, abnormal) ==
  /\ scope' = IF abnormal THEN "exitE" ELSE "exitN"
  /\ UNCHANGED scopeOwner
  /\ op' = [op EXCEPT ![t] = "close"]
  /\ pc' = [pc EXCEPT ![t] = "lock"]
  /\ res' = [res EXCEPT ![t] = "none"]

\* Control leaves the with-block of thread t, at its end or because a
\* statement of the block raised: the interpreter calls __exit__.
LeaveBlock(t) ==
  /\ scope = "in"
  /\ scopeOwner = t
  /\ pc[t] = "idle"
  /\ \E abnormal \in BOOLEAN : GFileBase_exit(t, abnormal)
  /\ UNCHANGED <<fsVars, objVars, offset, lockVars, sizeVars>>
  /\ UNCHANGED <<fin, otherVars>>

\* --------------------------------------------------------------- __del__
\* The object is allocated but its __init__ does not run to the attribute
\* assignments (the class is called with the wrong arguments): "a GFileBase
\* method is called before the instance has been properly initialized".
NewBare ==
  /\ handle = "none"
  /\ handle' = "bare"
  /\ UNCHANGED <<fsVars, ctorRes, mode, locker, offset, lockVars, pc, op, res,
                 sizeVars, scopeVars, fin, otherVars>>

\* Thread t drops the last reference to the object: no thread is inside a
\* call or a with-block of it, and the interpreter calls __del__ in t.
Finalize(t) ==
  /\ handle \in {"bare", "failed", "open", "closed"}
  /\ ~fin
  /\ \A u \in Threads : pc[u] = "idle"
  /\ scope \notin {"in", "exitN", "exitE"}
  /\ fin' = TRUE
  /\ op' = [op EXCEPT ![t] = "__del__"]
  /\ pc' = [pc EXCEPT ![t] = "lock"]
  /\ res' = [res EXCEPT ![t] = "none"]
  /\ UNCHANGED <<fsVars, objVars, offset, lockVars, sizeVars, scopeVars,
                 otherVars>>

\* A mutant: __del__ closes without looking for the attribute.
HasFp_always == TRUE

\* hasattr(self, '_fp')
HasFp == handle \in {"open", "closed"}

\* Outcome of __del__'s body: self._fp.close() when there is an _fp; without
\* the hasattr test the attribute access would raise AttributeError.
del_status(fail) ==
  IF ~HasFp THEN "ok"
  ELSE IF handle \in {"open", "closed"} THEN fp_close_status(fail)
  ELSE "AttributeError"

\* __del__(): if hasattr(self, '_fp'): self._fp.close()
GFileBase_del(t) ==
  /\ InBody(t, "__del__")
  /\ \E fail \in BOOLEAN : Return(t, del_status(fail))
  /\ handle' = IF handle = "open" THEN "closed" ELSE handle
  /\ offset' = IF handle = "open" THEN 0 ELSE offset
  /\ UNCHANGED <<fsVars, ctorRes, mode, locker, sizeVars, scopeVars, fin,
                 otherVars>>

\* ---------------------------------------------------------- specification
Step(t) ==
  \/ Lock(t)
  \/ GFileBase_del(t)
  \/ flush(t)
  \/ closed(t)
  \/ write(t)
  \/ writelines(t)
  \/ tell(t)
  \/ seek(t)
  \/ truncate(t)
  \/ readline(t)
  \/ readlines(t)
  \/ read(t)
  \/ next(t)
  \/ close(t)
  \/ Size_lock(t)
  \/ Size_tell1(t)
  \/ Size_seekend(t)
  \/ Size_tell2(t)
  \/ Size_restore(t)
  \/ Size_return(t)

\* What the threads do with a constructed handle.
Use ==
  \/ NewBare
  \/ \E t \in Threads : Finalize(t)
  \/ \E t \in Threads, o \in Ops : Call(t, o)
  \/ \E t \in Threads : GFileBase_enter(t)
  \/ \E t \in Threads : LeaveBlock(t)
  \/ \E t \in Threads : Step(t)

Next ==
  \/ \E m \in Modes : GFile(m)
  \/ \E m \in Modes : FastGFile(m)
  \/ Use

Spec == Init /\ [][Next]_vars

\* The handle is a GFile.  A thread that has called a method keeps running
\* (weak fairness of its steps), and a thread waiting in RLock.acquire gets
\* the lock if it is released again and again (strong fairness of Lock).
\* Nothing obliges a thread to call a method or to leave a with-block.
NextGFile ==
  \/ \E m \in Modes : GFile(m)
  \/ Use

Fairness == \A t \in Threads : WF_vars(Step(t)) /\ SF_vars(Lock(t))

FairSpec == Init /\ [][NextGFile]_vars /\ Fairness

TypeOK ==
  /\ dirOk \in BOOLEAN /\ fileExists \in BOOLEAN
  /\ fileLen \in 0..MaxLen /\ offset \in 0..MaxLen
  /\ handle \in {"none", "bare", "failed", "open", "closed"}
  /\ lockOwner \in Threads \cup {NoThread}
  /\ lockCount \in 0..2

\* ------------------------------------------- a session on a file with content
\* One thread opens a handle on a file whose bytes are kept, and calls
\* write, seek, read and close on it.  With a single thread the locking
\* strategy does not matter; the calls go through _error_wrapper as above.
MaxData == 2                 \* longest data written in one call
RtCap == MaxData + 1         \* longest file and largest offset explored

Bytes == {0, 1}              \* 0 is also the byte that fills a gap
RtModes == {"r", "w", "a", "r+", "w+", "a+"}

SeqsUpTo(n) == UNION {[1..k -> Bytes] : k \in 0..n}

\* Modes that allow reading / writing
CanRead(m) == m \in {"r", "r+", "w+", "a+"}
CanWrite(m) == m # "r"

\* A mutant: the data always goes to the end of the file.
WriteAt_append(c, p, d) == c \o d

\* The file's bytes after d is written at position p: a position beyond the
\* end leaves a gap of zero bytes; writing nothing changes nothing.
WriteAt(c, p, d) ==
  IF Len(d) = 0 THEN c
  ELSE [i \in 1..Max(Len(c), p + Len(d)) |->
          IF i > p /\ i <= p + Len(d) THEN d[i - p]
          ELSE IF i <= Len(c) THEN c[i]
          ELSE 0]

\* The bytes read(n) returns at position p: to the end of the file for a
\* negative n, at most n otherwise.
ReadFrom(c, p, n) ==
  IF p >= Len(c) THEN <<>>
  ELSE SubSeq(c, p + 1, IF n < 0 THEN Len(c) ELSE Min(p + n, Len(c)))

\* Outcome of a call of the session's file object, as fp_status above.
rt_status(kind, fail) ==
  IF rt.st = "closed" THEN "ValueError"
  ELSE IF kind = "write" /\ ~CanWrite(rt.mode) THEN "IOError"
  ELSE IF kind = "read" /\ ~CanRead(rt.mode) THEN "IOError"
  ELSE IF fail THEN "IOError"
  ELSE "ok"

\* What a call hands to its caller: the normalised exception or the value.
Outcome(raw, value) == IF raw = "ok" THEN <<"ok", value>> ELSE <<error_wrapper(raw)>>

NoTrack == [phase |-> "none", data |-> <<>>, wpos |-> 0, wasEmpty |-> FALSE]

HandleIdle ==
  /\ dirOk = FALSE
  /\ fileExists = FALSE
  /\ fileLen = 0
  /\ handle = "none"
  /\ ctorRes = "none"
  /\ mode = "none"
  /\ locker = "none"
  /\ offset = 0
  /\ lockOwner = NoThread
  /\ lockCount = 0
  /\ pc = [t \in Threads |-> "idle"]
  /\ op = [t \in Threads |-> "none"]
  /\ res = [t \in Threads |-> "none"]
  /\ step = [t \in Threads |-> "none"]
  /\ inner = [t \in Threads |-> FALSE]
  /\ cur = [t \in Threads |-> NoCur]
  /\ pend = [t \in Threads |-> "none"]
  /\ exc = [t \in Threads |-> "none"]
  /\ scope = "out"
  /\ scopeOwner = NoThread
  /\ fin = FALSE

InitRT ==
  /\ HandleIdle
  /\ \E e \in BOOLEAN, c \in SeqsUpTo(MaxData) :
       /\ ~e => c = <<>>
       /\ rt = [exists |-> e, content |-> c, st |-> "none", mode |-> "none",
                pos |-> 0, out |-> <<"none">>, track |-> NoTrack]
  /\ pair = "none"
  /\ tree = "none"
  /\ fcall = "none"
  /\ flagv = "none"

\* What the session leaves alone
RtFrame == UNCHANGED <<handleVars, pair, tree, fcall, flagv>>

\* GFile(name, m) / FastGFile(name, m): open() needs the file in the "r"
\* modes, empties it in the "w" modes and creates it in the "w" and "a" modes.
RtOpen(m) ==
  /\ rt.st = "none"
  /\ RtFrame
  /\ LET raw == IF m \in {"r", "r+"} /\ ~rt.exists THEN "IOError" ELSE "ok"
     IN rt' = IF raw = "ok"
              THEN [rt EXCEPT !.exists = TRUE,
                              !.content = IF m \in {"w", "w+"} THEN <<>> ELSE @,
                              !.st = "open", !.mode = m, !.pos = 0,
                              !.out = <<"ok", "handle">>]
              ELSE [rt EXCEPT !.st = "failed", !.mode = m,
                              !.out = <<error_wrapper(raw)>>]

\* write(data): self._fp.write(data); in the append modes at the end of the
\* file.  A successful write starts the sequence write, seek(0), read().
RtWrite(d, fail) ==
  /\ rt.st \in {"open", "closed"}
  /\ RtFrame
  /\ LET raw == rt_status("write", fail)
         p == IF rt.mode \in {"a", "a+"} THEN Len(rt.content) ELSE rt.pos
     IN /\ raw = "ok" => p + Len(d) <= RtCap
        /\ rt' = IF raw = "ok"
                 THEN [rt EXCEPT !.content = WriteAt(@, p, d),
                                 !.pos = p + Len(d),
                                 !.out = <<"ok", "None">>,
                                 !.track = [phase |-> "w", data |-> d,
                                            wpos |-> p,
                                            wasEmpty |-> rt.content = <<>>]]
                 ELSE [rt EXCEPT !.out = <<error_wrapper(raw)>>,
                                 !.track = NoTrack]

\* seek(offset, whence): self._fp.seek(offset, whence); seek(0) right after
\* the write continues the sequence.
RtSeek(off, whence, fail) ==
  /\ rt.st \in {"open", "closed"}
  /\ RtFrame
  /\ LET new == CASE whence = 0 -> off
                  [] whence = 1 -> rt.pos + off
                  [] whence = 2 -> Len(rt.content) + off
         raw == rt_status("any", fail \/ new < 0)
     IN /\ new <= RtCap
        /\ rt' = IF raw = "ok"
                 THEN [rt EXCEPT !.pos = new, !.out = <<"ok", "None">>,
                                 !.track = IF @.phase = "w" /\ off = 0
                                              /\ whence = 0
                                           THEN [@ EXCEPT !.phase = "ws"]
                                           ELSE NoTrack]
                 ELSE [rt EXCEPT !.out = <<error_wrapper(raw)>>,
                                 !.track = NoTrack]

\* read(n): self._fp.read(n); read() right after the seek(0) ends the
\* sequence, whether it returns or raises.
RtRead(n, fail) ==
  /\ rt.st \in {"open", "closed"}
  /\ RtFrame
  /\ LET raw == rt_status("read", fail)
         got == ReadFrom(rt.content, rt.pos, n)
         trk == IF rt.track.phase = "ws" /\ n < 0
                THEN [rt.track EXCEPT !.phase = "wsr"]
                ELSE NoTrack
     IN rt' = [rt EXCEPT !.pos = IF raw = "ok" THEN @ + Len(got) ELSE @,
                         !.out = Outcome(raw, got),
                         !.track = trk]

\* close(): self._fp.close()
RtClose ==
  /\ rt.st \in {"open", "closed"}
  /\ RtFrame
  /\ rt' = [rt EXCEPT !.st = "closed", !.out = <<"ok", "None">>,
                      !.track = NoTrack]

NextRT ==
  \/ \E m \in RtModes : RtOpen(m)
  \/ \E d \in SeqsUpTo(MaxData), fail \in BOOLEAN : RtWrite(d, fail)
  \/ \E off \in (0 - RtCap)..RtCap, whence \in 0..2, fail \in BOOLEAN :
       RtSeek(off, whence, fail)
  \/ \E n \in -1..RtCap, fail \in BOOLEAN : RtRead(n, fail)
  \/ RtClose

SpecRT == InitRT /\ [][NextRT]_vars

\* ------------------------------------------------------------ two handles
\* Two handles, each constructed as a GFile or a FastGFile, and the threads
\* calling synchronized methods on them.  A method stands for any of the
\* synchronized ones: lock, body, unlock, with the one nested call Size()
\* makes from its body.
Handles == {"h1", "h2"}
NoHandle == "none"
NoLock == 0                  \* the _Nulllocker holds no lock object
LockIds == 1..Cardinality(Handles)

\* A mutant: every _Pythonlocker uses one and the same lock.
NewRLock_shared(made) == 1

\* threading.RLock() in _Pythonlocker.__init__: a lock object no other
\* locker has (made = the number of lock objects created before).
NewRLock(made) == made + 1

InitPair ==
  /\ HandleIdle
  /\ pair = [kind |-> [h \in Handles |-> "none"],
             lk |-> [h \in Handles |-> NoLock],
             made |-> 0,
             owner |-> [l \in LockIds |-> NoThread],
             count |-> [l \in LockIds |-> 0],
             at |-> [t \in Threads |-> "idle"],
             on |-> [t \in Threads |-> NoHandle],
             depth |-> [t \in Threads |-> 0]]
  /\ rt = "none"
  /\ tree = "none"
  /\ fcall = "none"
  /\ flagv = "none"

PairFrame == UNCHANGED <<handleVars, rt, tree, fcall, flagv>>

\* GFile(name, mode): _GFileBase.__init__(self, name, mode, _Pythonlocker())
PairGFile(h) ==
  /\ pair.kind[h] = "none"
  /\ PairFrame
  /\ pair' = [pair EXCEPT !.kind[h] = "Python",
                          !.lk[h] = NewRLock(pair.made),
                          !.made = @ + 1]

\* FastGFile(name, mode): _GFileBase.__init__(self, name, mode, _Nulllocker())
PairFastGFile(h) ==
  /\ pair.kind[h] = "none"
  /\ PairFrame
  /\ pair' = [pair EXCEPT !.kind[h] = "Null"]

\* A thread calls a synchronized method of handle h.
PairCall(t, h) ==
  /\ pair.at[t] = "idle"
  /\ pair.kind[h] # "none"
  /\ PairFrame
  /\ pair' = [pair EXCEPT !.at[t] = "lock", !.on[t] = h]

\* self._locker.lock() of the handle the thread is calling into
PairLock(t) ==
  /\ pair.at[t] = "lock"
  /\ PairFrame
  /\ LET h == pair.on[t]
         l == pair.lk[h]
     IN IF pair.kind[h] = "Null"
        THEN pair' = [pair EXCEPT !.at[t] = "body", !.depth[t] = @ + 1]
        ELSE /\ pair.owner[l] \in {NoThread, t}
             /\ pair' = [pair EXCEPT !.owner[l] = t, !.count[l] = @ + 1,
                                     !.at[t] = "body", !.depth[t] = @ + 1]

\* Size() calls tell() and seek() from its body: a nested synchronized call
\* on the same handle.
PairNested(t) ==
  /\ pair.at[t] = "body"
  /\ pair.depth[t] = 1
  /\ PairFrame
  /\ pair' = [pair EXCEPT !.at[t] = "lock"]

\* self._locker.unlock() in the finally of sync, and the return
PairReturn(t) ==
  /\ pair.at[t] = "body"
  /\ PairFrame
  /\ LET h == pair.on[t]
         l == pair.lk[h]
         d == pair.depth[t] - 1
         left == [pair EXCEPT !.depth[t] = d,
                              !.at[t] = IF d = 0 THEN "idle" ELSE "body",
                              !.on[t] = IF d = 0 THEN NoHandle ELSE @]
     IN IF pair.kind[h] = "Null"
        THEN pair' = left
        ELSE pair' = [left EXCEPT !.count[l] = @ - 1,
                                  !.owner[l] = IF pair.count[l] = 1
                                               THEN NoThread ELSE @]

NextPair ==
  \/ \E h \in Handles : PairGFile(h)
  \/ \E h \in Handles : PairFastGFile(h)
  \/ \E t \in Threads, h \in Handles : PairCall(t, h)
  \/ \E t \in Threads : PairLock(t)
  \/ \E t \in Threads : PairNested(t)
  \/ \E t \in Threads : PairReturn(t)

SpecPair == InitPair /\ [][NextPair]_vars

\* ------------------------------------------------- the directory functions
\* The module-level functions on a directory tree.  A path is the sequence of
\* its components below the working directory, a component a sequence of
\* characters; tree gives each path "none", "file" or "dir".  One process,
\* no symbolic links; a mutating call of the OS can fail (permissions), which
\* the functions report as GOSError.
MaxDepth == 2                \* longest path explored

DirName == <<"a">>
DotName == <<".", "b">>
Names == {DirName, DotName}
CurDir == <<".">>
ParDir == <<".", ".">>

\* The paths explored: entries named DotName are given nothing below them.
Paths ==
  {p \in UNION {[1..k -> Names] : k \in 1..MaxDepth} :
     \A i \in 1..(Len(p) - 1) : p[i] = DirName}

Parent(p) == SubSeq(p, 1, Len(p) - 1)
IsPrefix(p, q) == Len(p) <= Len(q) /\ SubSeq(q, 1, Len(p)) = p
Kind(tr, p) == IF p = <<>> THEN "dir" ELSE tr[p]
Subtree(tr, p) == {q \in Paths : IsPrefix(p, q) /\ tr[q] # "none"}
Entries(tr, p) == {q \in Paths : Len(q) = Len(p) + 1 /\ Parent(q) = p /\ tr[q] # "none"}

\* Every entry lies in a directory.
ValidTree(tr) == \A p \in Paths : tr[p] # "none" => Kind(tr, Parent(p)) = "dir"

\* _func_error_wrapper: ValueError and IOError become FileError, OSError
\* (GOSError, its subclass, included) becomes GOSError.
func_error_wrapper(raw) ==
  CASE raw = "ok" -> "ok"
    [] raw \in {"ValueError", "IOError"} -> "FileError"
    [] OTHER -> "GOSError"

os_path_exists(tr, p) == Kind(tr, p) # "none"
os_path_isdir(tr, p) == Kind(tr, p) = "dir"

\* A mutant: creating a directory that exists succeeds.
os_mkdir_existok(tr, p, fail) ==
  [st |-> "ok", tr |-> [tr EXCEPT ![p] = IF @ = "none" THEN "dir" ELSE @]]

\* os.mkdir(path): the status (an errno of OSError, or "ok") and the tree after
os_mkdir(tr, p, fail) ==
  IF os_path_exists(tr, p) THEN [st |-> "EEXIST", tr |-> tr]
  ELSE IF Kind(tr, Parent(p)) = "none" THEN [st |-> "ENOENT", tr |-> tr]
  ELSE IF Kind(tr, Parent(p)) = "file" THEN [st |-> "ENOTDIR", tr |-> tr]
  ELSE IF fail THEN [st |-> "EACCES", tr |-> tr]
  ELSE [st |-> "ok", tr |-> [tr EXCEPT ![p] = "dir"]]

\* os.makedirs(path): makes the missing parent first, ignoring EEXIST from
\* it, then the directory itself; failAt is the depth at which mkdir is
\* refused (0: nowhere).
RECURSIVE os_makedirs(_, _, _)
os_makedirs(tr, p, failAt) ==
  LET head == Parent(p)
      pre == IF head # <<>> /\ ~os_path_exists(tr, head)
             THEN os_makedirs(tr, head, failAt)
             ELSE [st |-> "ok", tr |-> tr]
  IN IF pre.st \notin {"ok", "EEXIST"} THEN pre
     ELSE os_mkdir(pre.tr, p, failAt = Len(p))

\* os.rmdir(path)
os_rmdir(tr, p, fail) ==
  IF ~os_path_exists(tr, p) THEN [st |-> "ENOENT", tr |-> tr]
  ELSE IF tr[p] # "dir" THEN [st |-> "ENOTDIR", tr |-> tr]
  ELSE IF Entries(tr, p) # {} THEN [st |-> "ENOTEMPTY", tr |-> tr]
  ELSE IF fail THEN [st |-> "EACCES", tr |-> tr]
  ELSE [st |-> "ok", tr |-> [tr EXCEPT ![p] = "none"]]

\* os.remove(path)
os_remove(tr, p, fail) ==
  IF ~os_path_exists(tr, p) THEN [st |-> "ENOENT", tr |-> tr]
  ELSE IF tr[p] = "dir" THEN [st |-> "EISDIR", tr |-> tr]
  ELSE IF fail THEN [st |-> "EACCES", tr |-> tr]
  ELSE [st |-> "ok", tr |-> [tr EXCEPT ![p] = "none"]]

\* What a refused removal can have removed before: entries below p, a
\* directory only together with everything in it.
PartialRemovals(tr, p) ==
  {R \in SUBSET (Subtree(tr, p) \ {p}) : \A q \in R : Subtree(tr, q) \subseteq R}

Without(tr, R) == [q \in Paths |-> IF q \in R THEN "none" ELSE tr[q]]

\* A mutant: only the directory entry itself is removed.
shutil_rmtree_shallow(tr, p, fail, R) ==
  [st |-> "ok", tr |-> [tr EXCEPT ![p] = "none"]]

\* shutil.rmtree(path) of a directory: removes everything below it and then
\* the directory; when a removal is refused it raises with the entries R gone.
shutil_rmtree(tr, p, fail, R) ==
  IF fail THEN [st |-> "EACCES", tr |-> Without(tr, R)]
  ELSE [st |-> "ok", tr |-> Without(tr, Subtree(tr, p))]

\* What the OS keeps in a directory, "." and ".." included
readdir(tr, p) == {CurDir, ParDir} \cup {q[Len(q)] : q \in Entries(tr, p)}

\* os.listdir(path): the names in the directory without "." and ".."
os_listdir(tr, p, fail) ==
  IF ~os_path_exists(tr, p) THEN [st |-> "ENOENT", files |-> {}]
  ELSE IF tr[p] # "dir" THEN [st |-> "ENOTDIR", files |-> {}]
  ELSE IF fail THEN [st |-> "EACCES", files |-> {}]
  ELSE [st |-> "ok", files |-> readdir(tr, p) \ {CurDir, ParDir}]

\* f.startswith(c)
startswith(f, c) == Len(f) > 0 /\ f[1] = c

\* A mutant: the listing is returned as the OS gave it.
DotFilter_none(files, return_dotfiles) == files

\* if not return_dotfiles: files = [f for f in files if not f.startswith('.')]
DotFilter(files, return_dotfiles) ==
  IF ~return_dotfiles THEN {f \in files : ~startswith(f, ".")} ELSE files

\* The last call: the function, its arguments, what the path was when it was
\* called, what the call returned or raised ("None", "True", "False", "list"
\* with the names in files, or the error), and how many entries it created
\* or removed on the way to the tree after.
Called(o, p, dot, out, files, after) ==
  [op |-> o, path |-> p, dot |-> dot, was |-> Kind(tree, p), out |-> out,
   files |-> files,
   changed |-> Cardinality({q \in Paths : tree[q] # after[q]})]

Raised(st) == func_error_wrapper(IF st = "ok" THEN "ok" ELSE "OSError")
Returned(st, value) == IF st = "ok" THEN value ELSE Raised(st)

InitFS ==
  /\ HandleIdle
  /\ tree \in {tr \in [Paths -> {"none", "file", "dir"}] : ValidTree(tr)}
  /\ fcall = [op |-> "none", path |-> <<>>, dot |-> FALSE, was |-> "dir",
              out |-> "None", files |-> {}, changed |-> 0]
  /\ rt = "none"
  /\ pair = "none"
  /\ flagv = "none"

FSFrame == UNCHANGED <<handleVars, rt, pair, flagv>>

Exists(p) ==
  /\ fcall' = Called("Exists", p, FALSE,
                     IF os_path_exists(tree, p) THEN "True" ELSE "False", {},
                     tree)
  /\ UNCHANGED tree
  /\ FSFrame

IsDirectory(p) ==
  /\ fcall' = Called("IsDirectory", p, FALSE,
                     IF os_path_isdir(tree, p) THEN "True" ELSE "False", {},
                     tree)
  /\ UNCHANGED tree
  /\ FSFrame

\* Glob of a pattern without wildcards: the path itself when it exists
Glob(p) ==
  /\ fcall' = Called("Glob", p, FALSE, "list",
                     IF os_path_exists(tree, p) THEN {p} ELSE {}, tree)
  /\ UNCHANGED tree
  /\ FSFrame

MkDir(p, fail) ==
  LET r == os_mkdir(tree, p, fail)
  IN /\ tree' = r.tr
     /\ fcall' = Called("MkDir", p, FALSE, Returned(r.st, "None"), {}, r.tr)
     /\ FSFrame

MakeDirs(p, failAt) ==
  LET r == os_makedirs(tree, p, failAt)
  IN /\ tree' = r.tr
     /\ fcall' = Called("MakeDirs", p, FALSE, Returned(r.st, "None"), {}, r.tr)
     /\ FSFrame

RmDir(p, fail) ==
  LET r == os_rmdir(tree, p, fail)
  IN /\ tree' = r.tr
     /\ fcall' = Called("RmDir", p, FALSE, Returned(r.st, "None"), {}, r.tr)
     /\ FSFrame

Remove(p, fail) ==
  LET r == os_remove(tree, p, fail)
  IN /\ tree' = r.tr
     /\ fcall' = Called("Remove", p, FALSE, Returned(r.st, "None"), {}, r.tr)
     /\ FSFrame

\* if IsDirectory(path): shutil.rmtree(path) else: Remove(path)
DeleteRecursively(p, fail) ==
  \E R \in (IF os_path_isdir(tree, p) /\ fail
            THEN PartialRemovals(tree, p) ELSE {{}}) :
    LET r == IF os_path_isdir(tree, p)
             THEN shutil_rmtree(tree, p, fail, R)
             ELSE os_remove(tree, p, fail)
    IN /\ tree' = r.tr
       /\ fcall' = Called("DeleteRecursively", p, FALSE,
                          Returned(r.st, "None"), {}, r.tr)
       /\ FSFrame

ListDirectory(p, return_dotfiles, fail) ==
  LET r == os_listdir(tree, p, fail)
  IN /\ fcall' = Called("ListDirectory", p, return_dotfiles,
                        Returned(r.st, "list"),
                        DotFilter(r.files, return_dotfiles), tree)
     /\ UNCHANGED tree
     /\ FSFrame

NextFS ==
  \/ \E p \in Paths : Exists(p)
  \/ \E p \in Paths : IsDirectory(p)
  \/ \E p \in Paths : Glob(p)
  \/ \E p \in Paths, fail \in BOOLEAN : MkDir(p, fail)
  \/ \E p \in Paths, failAt \in 0..MaxDepth : MakeDirs(p, failAt)
  \/ \E p \in Paths, fail \in BOOLEAN : RmDir(p, fail)
  \/ \E p \in Paths, fail \in BOOLEAN : Remove(p, fail)
  \/ \E p \in Paths, fail \in BOOLEAN : DeleteRecursively(p, fail)
  \/ \E p \in Paths, dot \in BOOLEAN, fail \in BOOLEAN : ListDirectory(p, dot, fail)

SpecFS == InitFS /\ [][NextFS]_vars

\* ------------------------------------------------------------ the flags
\* The flags of flags_test.py: bool_foo (default True) and int_foo (default
\* 42), the command line sys.argv after the program name, and what the test
\* does with them: assign a flag, append an argument, parse, pop the argument.
\* The flags library itself is not part of the sources; parsing follows what
\* testNoBool expects of it.
MaxArgs == 2                 \* longest command line explored

NegArg == "--nobool_foo"
PosArg == "--bool_foo"
IntArg == "--int_foo=7"
Args == {NegArg, PosArg, IntArg}
DefaultBool == TRUE
DefaultInt == 42
IntValues == {DefaultInt, 7, -1}

InArgv(argv, a) == \E i \in 1..Len(argv) : argv[i] = a

\* A mutant: parsing leaves the value assigned by the program.
parse_bool_keep(argv, now) == {now}

\* The values bool_foo can have after the parse: False with the negated
\* form, True with the positive form, and without either the default or the
\* value it has (the sources do not say which).
parse_bool(argv, now) ==
  IF InArgv(argv, NegArg) THEN {FALSE}
  ELSE IF InArgv(argv, PosArg) THEN {TRUE}
  ELSE {DefaultBool, now}

parse_int(argv, now) ==
  IF InArgv(argv, IntArg) THEN {7} ELSE {DefaultInt, now}

InitFlags ==
  /\ HandleIdle
  /\ flagv = [bool_foo |-> DefaultBool, int_foo |-> DefaultInt, argv |-> <<>>,
              assigned |-> "none", last |-> "define"]
  /\ rt = "none"
  /\ pair = "none"
  /\ tree = "none"
  /\ fcall = "none"

FlagsFrame == UNCHANGED <<handleVars, rt, pair, tree, fcall>>

\* FLAGS.bool_foo = v
SetBool(v) ==
  /\ flagv' = [flagv EXCEPT !.bool_foo = v,
                            !.assigned = IF v THEN "True" ELSE "False",
                            !.last = "set"]
  /\ FlagsFrame

\* FLAGS.int_foo = v
SetInt(v) ==
  /\ flagv' = [flagv EXCEPT !.int_foo = v, !.last = "set"]
  /\ FlagsFrame

\* sys.argv.append(a); a command line with both forms of bool_foo is left
\* out: nothing in the sources says which of them counts.
ArgvAppend(a) ==
  /\ Len(flagv.argv) < MaxArgs
  /\ ~(a = PosArg /\ InArgv(flagv.argv, NegArg))
  /\ ~(a = NegArg /\ InArgv(flagv.argv, PosArg))
  /\ flagv' = [flagv EXCEPT !.argv = Append(@, a), !.last = "append"]
  /\ FlagsFrame

\* sys.argv.pop()
ArgvPop ==
  /\ Len(flagv.argv) > 0
  /\ flagv' = [flagv EXCEPT !.argv = SubSeq(@, 1, Len(@) - 1), !.last = "pop"]
  /\ FlagsFrame

\* FLAGS._parse_flags()
ParseFlags ==
  /\ \E b \in parse_bool(flagv.argv, flagv.bool_foo),
        n \in parse_int(flagv.argv, flagv.int_foo) :
       flagv' = [flagv EXCEPT !.bool_foo = b, !.int_foo = n, !.last = "parse"]
  /\ FlagsFrame

NextFlags ==
  \/ \E v \in BOOLEAN : SetBool(v)
  \/ \E v \in IntValues : SetInt(v)
  \/ \E a \in Args : ArgvAppend(a)
  \/ ArgvPop
  \/ ParseFlags

SpecFlags == InitFlags /\ [][NextFlags]_vars

\* ----------------------------------------------------------------- claims
InSyncBody(t) == pc[t] = "body" /\ op[t] \in SyncOps
Finishes(t) == pc[t] = "body" /\ pc'[t] = "idle"
LockFree == lockCount = 0 /\ lockOwner = NoThread

\* C1: on a GFile (reentrant strategy) at most one thread is inside the body
\* of a synchronized operation, that thread owns the lock, and a thread that
\* has called a synchronized operation while another owns the lock cannot
\* pass lock().
C1_MutualExclusion ==
  locker = "Python" =>
    /\ \A t, u \in Threads : InSyncBody(t) /\ InSyncBody(u) => t = u
    /\ \A t \in Threads : InSyncBody(t) => lockOwner = t
    /\ \A u \in Threads :
         pc[u] = "lock" /\ lockOwner \notin {NoThread, u} => ~ENABLED Lock(u)

C1_Witness ==
  /\ locker = "Python"
  /\ \E t, u \in Threads : t # u /\ InSyncBody(t) /\ pc[u] = "lock"

\* C2: a synchronized operation leaves the lock as it found it, whether the
\* underlying call returned or raised: a thread outside every synchronized
\* body does not own the lock, the lock is free when no thread is inside one,
\* and inside Size() the hold count is back to one after each nested call.
C2_LockReleased ==
  /\ \A t \in Threads : ~InSyncBody(t) => lockOwner # t
  /\ (\A t \in Threads : ~InSyncBody(t)) => LockFree
  /\ \A t \in Threads :
       locker = "Python" /\ InSyncBody(t) =>
         lockCount = (IF inner[t] THEN 2 ELSE 1)

C2_Witness ==
  /\ locker = "Python"
  /\ LockFree
  /\ \A t \in Threads : pc[t] = "idle"
  /\ \E t \in Threads : res[t] = "FileError"

\* C3: a closed handle stays closed, and an operation other than close (and
\* the closed property) that finds the handle closed fails with FileError;
\* for Size() that is its first tell(), whose FileError Size() then raises.
C3_ClosedTerminal ==
  [][/\ handle = "closed" => handle' = "closed"
     /\ \A t \in Threads :
          /\ (handle = "closed" /\ Finishes(t)
                /\ op[t] \notin {"close", "closed", "Size", "__del__"})
               => res'[t] = "FileError"
          /\ (handle = "closed" /\ InSize(t, "tell1") /\ step'[t] # "tell1")
               => step'[t] = "exit" /\ exc'[t] = "FileError"
          /\ (Finishes(t) /\ op[t] = "Size" /\ exc[t] = "FileError")
               => res'[t] = "FileError"]_vars

C3_Witness ==
  /\ handle = "closed"
  /\ \E t, u \in Threads : InBody(t, "read") /\ InSize(u, "tell1")

C5_OffsetRestored ==
  [][\A t \in Threads :
       Finishes(t) /\ op[t] = "Size" /\ cur[t] # NoCur => offset' = cur[t]]_vars

\* C5 amended: Size() leaves its body only after its first tell() failed
\* (the offset is then untouched) or after the restoring seek(cur) was
\* attempted, also when seek(0, 2) or the second tell() raised; the restoring
\* seek, unless it fails itself, sets the offset to cur.
C5_RestoreAttempted ==
  [][\A t \in Threads :
       /\ (InBody(t, "Size") /\ step[t] # "exit" /\ step'[t] = "exit")
            => step[t] \in {"tell1", "restore"}
       /\ (InSize(t, "tell1") /\ step'[t] = "exit") => offset' = offset
       /\ (InSize(t, "restore") /\ step'[t] = "exit" /\ exc'[t] = "none")
            => offset' = cur[t]]_vars

C5_Witness ==
  \E t \in Threads :
    /\ InBody(t, "Size") /\ step[t] = "exit"
    /\ pend[t] = "FileError" /\ exc[t] = "none"
    /\ cur[t] # fileLen /\ offset = cur[t]

C7_CloseIdempotent ==
  [][\A t \in Threads :
       (handle = "closed" /\ Finishes(t) /\ op[t] = "close") =>
         /\ res'[t] = "ok"
         /\ handle' = "closed"
         /\ locker = "Python" => lockCount' = 0 /\ lockOwner' = NoThread
         /\ UNCHANGED <<fsVars, offset>>]_vars

C7_Witness == handle = "closed" /\ \E t \in Threads : InBody(t, "close")

Constructs == handle = "none" /\ handle' \in {"open", "failed"}

C9_ScopedClose == scope \in {"leftN", "leftE"} => handle = "closed"

C9_Witness ==
  /\ scope = "leftE"
  /\ \E t, u \in Threads : t # u /\ res[t] = "FileError" /\ pc[u] = "lock"

\* C10: next() never passes through lock(): a thread executing next() is
\* never waiting for the lock and never owns it, it can run while another
\* thread owns the lock, and it leaves the lock as it is.
C10_NextUnsynchronized ==
  /\ [](\A t \in Threads :
          op[t] = "next" =>
            pc[t] = "body" /\ lockOwner # t /\ ENABLED next(t))
  /\ [][\A t \in Threads :
          Finishes(t) /\ op[t] = "next" => UNCHANGED lockVars]_vars

C10_Witness ==
  \E t, u \in Threads :
    /\ t # u
    /\ InBody(t, "next") /\ offset < fileLen /\ mode = "r"
    /\ lockOwner = u /\ InSize(u, "seekend")

\* C12: on a FastGFile (null strategy) lock() and unlock() are no-ops: the
\* lock is never taken, a thread that has called a synchronized operation can
\* always pass lock(), and every thread inside a call can always take its
\* next step, whatever the other threads are doing.
C12_NullNeverWaits ==
  locker = "Null" =>
    /\ LockFree
    /\ \A t \in Threads :
         /\ pc[t] = "lock" => ENABLED Lock(t)
         /\ pc[t] # "idle" => ENABLED Step(t)

C12_Witness ==
  /\ locker = "Null"
  /\ \E t, u \in Threads :
       t # u /\ InBody(t, "write") /\ InSize(u, "tell2")

\* C18: on a GFile a thread inside Size() owns the lock for as long as it is
\* inside, no other thread is inside a synchronized body meanwhile, and the
\* offset is moved only by that thread or by an unsynchronized next().
C18_SizeAtomic ==
  [][\A t \in Threads :
       (locker = "Python" /\ InBody(t, "Size")) =>
         /\ lockOwner = t /\ lockCount >= 1
         /\ InBody(t, "Size")' => lockOwner' = t /\ lockCount' >= 1
         /\ \A u \in Threads \ {t} : ~InSyncBody(u) /\ ~InSyncBody(u)'
         /\ offset' # offset =>
              \/ step'[t] # step[t]
              \/ \E u \in Threads \ {t} : op[u] = "next" /\ Finishes(u)]_vars

C18_Witness ==
  /\ locker = "Python"
  /\ \E t, u \in Threads :
       /\ t # u
       /\ InBody(t, "Size") /\ step[t] = "restore"
       /\ offset = fileLen /\ cur[t] # offset
       /\ pc[u] = "lock" /\ op[u] = "write"

\* Number of synchronized calls thread t is inside: Size() and its nested
\* tell/seek, or one plain operation.
Depth(t) == IF InSyncBody(t) THEN (IF inner[t] THEN 2 ELSE 1) ELSE 0

\* C19: the hold count of the lock is never negative, it is zero exactly when
\* nobody owns the lock, on a GFile it equals the number of synchronized calls
\* the owner is inside (and the others are inside none), and it goes down
\* only by a step of the owner leaving a synchronized call.
C19_PairedLocking ==
  /\ [](/\ lockCount >= 0
        /\ lockOwner = NoThread <=> lockCount = 0
        /\ locker = "Python" =>
             \A t \in Threads :
               Depth(t) = (IF lockOwner = t THEN lockCount ELSE 0))
  /\ [][lockCount' < lockCount =>
          \E t \in Threads :
            /\ lockOwner = t /\ InSyncBody(t)
            /\ lockCount' = lockCount - 1
            /\ pc'[t] = "idle" \/ (inner[t] /\ ~inner'[t])]_vars

C19_Witness ==
  /\ lockCount = 2
  /\ \E t, u \in Threads :
       t # u /\ lockOwner = t /\ InSize(t, "seekend") /\ pc[u] = "lock"

\* C20: a handle is left without _fp exactly when its constructor raised; its __del__
\* returns without raising, closes nothing, changes neither the file nor the
\* handle and leaves the lock free; while no locker is attached the lock is
\* never taken and a method that reached lock() can always go on.
C20_FailedConstruction ==
  /\ [](/\ handle = "failed" <=> ctorRes = "FileError"
        /\ locker = "none" =>
             /\ LockFree
             /\ \A t \in Threads : pc[t] # "idle" => ENABLED Step(t))
  /\ [][\A t \in Threads :
          (Finishes(t) /\ op[t] = "__del__" /\ handle \in {"failed", "bare"})
            => /\ res'[t] = "ok"
               /\ LockFree'
               /\ UNCHANGED <<fsVars, objVars, offset>>]_vars

C20_Witness ==
  /\ handle = "failed" /\ locker = "Python"
  /\ \E t \in Threads : InBody(t, "__del__") /\ lockOwner = t

\* C11 as claimed: when write(data), seek(0) and read() have been called in
\* a row on a handle, the read() returned exactly data.
C11_RoundTrip ==
  rt.track.phase = "wsr" => rt.out = <<"ok", rt.track.data>>

\* C11 amended: after write(data), seek(0) and read() in a row, read() raised
\* FileError, or it returned the whole content of the file, in which data
\* stands at the position it was written to; what it returned is exactly data
\* when the file was empty before the write and the write was at position 0.
C11_RoundTripOnEmptyFile ==
  rt.track.phase = "wsr" =>
    LET t == rt.track IN
    \/ rt.out = <<"FileError">>
    \/ /\ rt.out = <<"ok", rt.content>>
       /\ SubSeq(rt.content, t.wpos + 1, t.wpos + Len(t.data)) = t.data
       /\ (t.wasEmpty /\ t.wpos = 0) => rt.out = <<"ok", t.data>>

C11_Witness ==
  /\ rt.track.phase = "wsr"
  /\ rt.mode = "w+"
  /\ Len(rt.track.data) = MaxData
  /\ rt.out = <<"ok", rt.track.data>>

\* C13: two GFile handles never have the same lock object, and a thread about
\* to take the lock of a handle can take it whenever no other thread is inside
\* a synchronized method of that same handle, whatever locks of other handles
\* are held.
C13_OwnLocker ==
  /\ \A h, g \in Handles :
       (h # g /\ pair.kind[h] = "Python" /\ pair.kind[g] = "Python")
         => pair.lk[h] # pair.lk[g]
  /\ \A t \in Threads :
       (/\ pair.at[t] = "lock"
        /\ \A u \in Threads \ {t} :
             pair.on[u] = pair.on[t] => pair.depth[u] = 0)
         => ENABLED PairLock(t)

C13_Witness ==
  \E t, u \in Threads :
    /\ t # u
    /\ pair.at[t] = "lock"
    /\ pair.kind[pair.on[t]] = "Python"
    /\ pair.on[u] \in Handles \ {pair.on[t]}
    /\ pair.kind[pair.on[u]] = "Python"
    /\ pair.owner[pair.lk[pair.on[u]]] = u

\* The step is a call of function o on path p.
IsCall(o, p) == fcall'.op = o /\ fcall'.path = p

\* C14: a DeleteRecursively(p) that returns leaves nothing of the subtree of a
\* directory p and nothing of a file p; on a path that does not exist it
\* raises GOSError and the tree is unchanged.
C14_DeleteRecursively ==
  [][\A p \in Paths :
       IsCall("DeleteRecursively", p) =>
         /\ (tree[p] = "dir" /\ fcall'.out = "None")
              => \A q \in Paths : IsPrefix(p, q) => tree'[q] = "none"
         /\ (tree[p] = "file" /\ fcall'.out = "None") => tree'[p] = "none"
         /\ tree[p] = "none" => (fcall'.out = "GOSError" /\ tree' = tree)
         /\ fcall'.out \in {"None", "GOSError"}]_vars

C14_Witness ==
  /\ fcall.op = "DeleteRecursively"
  /\ fcall.out = "None"
  /\ fcall.path = <<DirName>>
  /\ fcall.was = "dir"
  /\ fcall.changed = 2 * MaxDepth - 1
  /\ \A q \in Paths : IsPrefix(fcall.path, q) => tree[q] = "none"
  /\ tree[<<DotName>>] = "file"

\* The names of the entries of directory p
EntryNames(tr, p) == {q[Len(q)] : q \in Entries(tr, p)}

\* C15: a ListDirectory that returns never returns "." or ".."; without
\* return_dotfiles it returns exactly the names of the directory's entries
\* that do not begin with a dot, with return_dotfiles the names of all its
\* entries; and the call changes nothing in the tree.
C15_ListDirectory ==
  /\ []((fcall.op = "ListDirectory" /\ fcall.out = "list") =>
          /\ CurDir \notin fcall.files
          /\ ParDir \notin fcall.files
          /\ ~fcall.dot =>
               fcall.files = {f \in EntryNames(tree, fcall.path) : f[1] # "."}
          /\ fcall.dot => fcall.files = EntryNames(tree, fcall.path))
  /\ [][\A p \in Paths : IsCall("ListDirectory", p) => tree' = tree]_vars

C15_Witness ==
  /\ fcall.op = "ListDirectory"
  /\ fcall.out = "list"
  /\ ~fcall.dot
  /\ fcall.files = {DirName}
  /\ EntryNames(tree, fcall.path) = {DirName, DotName}

\* C16: a MakeDirs(p) that returns leaves p and every directory above it in
\* existence, so that Exists, which answers whether the path exists, returns
\* True for them; MakeDirs(p) on a path that exists raises GOSError and
\* changes nothing.
C16_MakeDirs ==
  /\ [](fcall.op = "Exists" =>
          (fcall.out = "True" <=> tree[fcall.path] # "none"))
  /\ [][\A p \in Paths :
          IsCall("MakeDirs", p) =>
            /\ fcall'.out = "None" =>
                 \A q \in Paths : IsPrefix(q, p) => tree'[q] = "dir"
            /\ tree[p] # "none" => (fcall'.out = "GOSError" /\ tree' = tree)
            /\ fcall'.out \in {"None", "GOSError"}]_vars

C16_Witness ==
  /\ fcall.op = "MakeDirs"
  /\ fcall.out = "None"
  /\ Len(fcall.path) = MaxDepth
  /\ fcall.changed = MaxDepth
  /\ ENABLED (MakeDirs(fcall.path, 0) /\ fcall'.out = "GOSError")

\* C17: right after a parse of a command line that contains --nobool_foo the
\* flag bool_foo is False, whatever was assigned to it before the parse.
C17_NoBool ==
  (flagv.last = "parse" /\ InArgv(flagv.argv, NegArg)) => flagv.bool_foo = FALSE

C17_Witness ==
  /\ flagv.last = "parse"
  /\ flagv.assigned = "True"
  /\ flagv.argv = <<NegArg>>
  /\ flagv.bool_foo = FALSE

====
